---- MODULE Spec2Model ----
(***************************************************************************)
(* SoulBalance AI proxy (src/main.py): the FastAPI service that validates  *)
(* a well-being snapshot, calls the Gemini model once and normalises the   *)
(* model's reply into AjusteResponse.                                      *)
(*                                                                         *)
(* A Python str is a sequence of characters; a character is a one-letter   *)
(* string.  The non-ASCII letters the source uses are named below.         *)
(* An Optional[...] value is a sequence of length at most one: <<>> is     *)
(* None and <<v>> is the value v.                                          *)
(***************************************************************************)
EXTENDS Integers, Sequences, FiniteSets, TLC

VARIABLES
    GEMINI_API_KEY,   \* os.getenv("GEMINI_API_KEY"), read once at import
    client,           \* _client: "Client" or "None"
    MODEL_NAME,       \* the model identifier chosen at import
    GEN_TEMPERATURE,  \* os.getenv value read by every request
    GEN_MAX_TOKENS,   \* os.getenv value read by every request
    strCoercion,      \* whether the installed pydantic turns a number into a str
    pc,               \* position of the request being served
    rawReq,           \* the request body as received
    calls,            \* generate_content calls made for the current request
    upstream,         \* what generate_content gave to the current request
    status,           \* HTTP status of the reply (0: none yet)
    body,             \* AjusteResponse of the reply
    tried,            \* normaliser strategies run for the current request, in order
    served,           \* requests received so far
    healthStatus,     \* HTTP status of the last GET /healthz (0: none yet)
    healthBody        \* body of the last GET /healthz

vars == <<GEMINI_API_KEY, client, MODEL_NAME, GEN_TEMPERATURE, GEN_MAX_TOKENS,
          strCoercion, pc, rawReq, calls, upstream, status, body, tried, served,
          healthStatus, healthBody>>

\* Requests served by one run of the process.
MaxRequests == 2

----------------------------------------------------------------------------
(* Characters *)

Bullet == "<U+2022>"
CCedilla == "<c-cedilla>"
ATilde == "<a-tilde>"
UCCedilla == "<C-cedilla>"
UATilde == "<A-tilde>"
AAcute == "<a-acute>"
UAAcute == "<A-acute>"

LowerLetters == <<"a","b","c","d","e","f","g","h","i","j","k","l","m","n","o","p","q",
                  "r","s","t","u","v","w","x","y","z",CCedilla,ATilde,AAcute>>
UpperLetters == <<"A","B","C","D","E","F","G","H","I","J","K","L","M","N","O","P","Q",
                  "R","S","T","U","V","W","X","Y","Z",UCCedilla,UATilde,UAAcute>>

Range(f) == {f[i] : i \in DOMAIN f}

Digits == {"0","1","2","3","4","5","6","7","8","9"}

\* \s of the re module and the characters str.strip() removes
Whitespace == {" ", "\t", "\n", "\r", "\f"}

\* \w of the re module
WordChars == Range(LowerLetters) \cup Range(UpperLetters) \cup Digits \cup {"_"}

\* case folding of re.I
Lower(c) ==
    IF c \in Range(UpperLetters)
    THEN LowerLetters[CHOOSE i \in DOMAIN UpperLetters : UpperLetters[i] = c]
    ELSE c

Min(a, b) == IF a <= b THEN a ELSE b

None == <<>>
Some(v) == <<v>>

----------------------------------------------------------------------------
(* str operations used by parse_text_fallback *)

\* a split pattern that also breaks at a full stop
SplitChars_fullStop == {"\r", "\n", "*", Bullet, "."}

\* the character class [\r\n\*<bullet>] of the split pattern
SplitChars == {"\r", "\n", "*", Bullet}

\* last index of the longest run of characters of `class` that starts at j
\* (j - 1 when there is none), at most `most` characters long
RunEnd(text, j, class, most) ==
    LET stop == {k \in j..Len(text) : text[k] \notin class} \cup {Len(text) + 1, j + most}
    IN (CHOOSE k \in stop : \A m \in stop : k <= m) - 1

\* the non-empty pieces of text from index i on, in order
RECURSIVE PiecesFrom(_, _)
PiecesFrom(text, i) ==
    LET starts == {k \in i..Len(text) : text[k] \notin SplitChars}
    IN IF starts = {} THEN <<>>
       ELSE LET b == CHOOSE k \in starts : \A m \in starts : k <= m
                e == RunEnd(text, b, Range(text) \ SplitChars, Len(text))
            IN <<SubSeq(text, b, e)>> \o PiecesFrom(text, e + 1)

\* re.split(r"[\r\n\*<bullet>]+", text): the pieces between maximal runs of
\* split characters; the first or last piece is "" when text starts or ends
\* with a split character, and "" alone is the one piece of the empty text
ReSplit(text) ==
    (IF text = <<>> \/ text[1] \in SplitChars THEN << <<>> >> ELSE <<>>)
    \o PiecesFrom(text, 1)
    \o (IF text # <<>> /\ text[Len(text)] \in SplitChars THEN << <<>> >> ELSE <<>>)

\* s.strip()
Strip(s) ==
    LET keep == {i \in 1..Len(s) : s[i] \notin Whitespace}
    IN IF keep = {} THEN <<>>
       ELSE SubSeq(s, CHOOSE i \in keep : \A j \in keep : i <= j,
                      CHOOSE i \in keep : \A j \in keep : j <= i)

\* [f(x) for x in xs]
RECURSIVE StripAll(_)
StripAll(xs) == IF xs = <<>> THEN <<>> ELSE <<Strip(Head(xs))>> \o StripAll(Tail(xs))

NonEmpty(s) == s # <<>>

\* lines = [s.strip() for s in parts if s and s.strip()]
Lines(text) == SelectSeq(StripAll(ReSplit(text)), NonEmpty)

\* a slice that forgets its limit
Slice_unbounded(s, n) == s

\* s[:n]
Slice(s, n) == SubSeq(s, 1, Min(n, Len(s)))

DiagMaxLen == 140
MaxRecs == 5
MaxClauseTail == 80

\* the pattern matches at the beginning of l, letters compared under re.I
StartsWithI(l, word) ==
    /\ Len(l) >= Len(word)
    /\ \A k \in 1..Len(word) : Lower(l[k]) = word[k]

\* the alternatives of suggestion_verbs
SuggestionVerbs ==
    { <<"f","a",CCedilla,"a">>,
      <<"p","a","u","s","a">>,
      <<"r","e","s","p","i","r","a",CCedilla,ATilde,"o">>,
      <<"a","l","o","n","g","a","m","e","n","t","o">>,
      <<"h","i","d","r","a","t","e">>,
      <<"c","a","m","i","n","h","e">>,
      <<"m","e","d","i","t","e">>,
      <<"p","l","a","n","e","j","e">>,
      <<"d","e","s","c","a","n","s","e">>,
      <<"e","v","i","t","e">>,
      <<"r","e","d","u","z","a">>,
      <<"a","u","m","e","n","t","e">>,
      <<"o","r","g","a","n","i","z","e">> }

\* suggestion_verbs.search(l)
SuggestionVerbMatch(l) == \E w \in SuggestionVerbs : StartsWithI(l, w)

\* re.search(r"\d+\s?m(in)?", l): a digit, at most one blank, then "m"
DurationMatch(l) ==
    \E i \in 1..Len(l) :
        /\ l[i] \in Digits
        /\ \/ i + 1 <= Len(l) /\ l[i + 1] = "m"
           \/ i + 2 <= Len(l) /\ l[i + 1] \in Whitespace /\ l[i + 2] = "m"

IsRec(l) == SuggestionVerbMatch(l) \/ DurationMatch(l)

\* recs = [l for l in lines[1:] if ...]; recs = recs[:5] if recs else ["Pausa leve 5m"]
DefaultRecs == << <<"P","a","u","s","a"," ","l","e","v","e"," ","5","m">> >>
Recs(lines) ==
    LET found == SelectSeq(IF lines = <<>> THEN <<>> ELSE Tail(lines), IsRec)
    IN IF found # <<>> THEN Slice(found, MaxRecs) ELSE DefaultRecs

\* the stems of (reduz\w+|diminu\w+|aument\w+|eleve); the first three need \w+
LoadStemsW == { <<"r","e","d","u","z">>, <<"d","i","m","i","n","u">>, <<"a","u","m","e","n","t">> }
LoadStemBare == <<"e","l","e","v","e">>

StemAt(text, i, stem) ==
    /\ i + Len(stem) - 1 <= Len(text)
    /\ \A k \in 1..Len(stem) : Lower(text[i + k - 1]) = stem[k]

\* [^\.!?]
ClauseChars(text) == Range(text) \ {".", "!", "?"}

\* index of the last character of the alternation matched at i, 0 when none matches
StemEnd(text, i) ==
    IF \E s \in LoadStemsW :
           StemAt(text, i, s) /\ RunEnd(text, i + Len(s), WordChars, Len(text)) >= i + Len(s)
    THEN LET stem == CHOOSE s \in LoadStemsW : StemAt(text, i, s)
         IN RunEnd(text, i + Len(stem), WordChars, Len(text))
    ELSE IF StemAt(text, i, LoadStemBare) THEN i + Len(LoadStemBare) - 1
    ELSE 0

\* m = re.search(r"(reduz\w+|diminu\w+|aument\w+|eleve)[^\.!?]{0,80}", text, re.I);
\* ajuste_carga = m.group(0).strip() if m else None
AjusteCargaOf(text) ==
    LET at == {i \in 1..Len(text) : StemEnd(text, i) > 0}
    IN IF at = {} THEN None
       ELSE LET i == CHOOSE i \in at : \A j \in at : i <= j
                e == StemEnd(text, i)
            IN Some(Strip(SubSeq(text, i, RunEnd(text, e + 1, ClauseChars(text), MaxClauseTail))))

----------------------------------------------------------------------------
(* AjusteResponse, PlanoDiaItem *)

\* AjusteResponse(diagnostico, ajusteCarga, recomendacoesAutocuidado, planoDia,
\*                rawText, error)
AjusteResponse(d, a, r, p, raw, err) ==
    [diagnostico |-> d, ajusteCarga |-> a, recomendacoesAutocuidado |-> r,
     planoDia |-> p, rawText |-> raw, error |-> err]

PlanoDiaItem(t, dur, tipo, det) ==
    [titulo |-> t, duracaoMin |-> dur, tipo |-> tipo, detalhes |-> det]

\* the value of `body` while no AjusteResponse has been returned
NoBody == AjusteResponse(<<>>, None, <<>>, None, None, None)

----------------------------------------------------------------------------
(* json.loads, for the JSON subset of objects, arrays, strings without      *)
(* escape sequences, integers, true, false and null.  A JSON value is       *)
(* [t, s, items]: t its type, s the characters of a string, number or       *)
(* literal, items the elements of an array or the [k, v] members of an      *)
(* object in source order.                                                  *)

JVal(t, s, items) == [t |-> t, s |-> s, items |-> items]
JNull == JVal("null", <<>>, <<>>)

ParseOk(v, next) == [ok |-> TRUE, val |-> v, pos |-> next]
ParseFail == [ok |-> FALSE, val |-> JNull, pos |-> 0]

JsonWhitespace == {" ", "\t", "\n", "\r"}

\* first index >= i that holds no JSON whitespace (Len(s) + 1 at the end)
SkipWs(s, i) ==
    LET stop == {k \in i..Len(s) : s[k] \notin JsonWhitespace} \cup {Len(s) + 1}
    IN CHOOSE k \in stop : \A m \in stop : k <= m

\* s[i] = '"': the string ends at the next '"'; a backslash or a control
\* character before it is outside the subset and does not parse
ParseString(s, i) ==
    LET close == {k \in (i + 1)..Len(s) : s[k] = "\""}
    IN IF close = {} THEN ParseFail
       ELSE LET j == CHOOSE k \in close : \A m \in close : k <= m
                inner == SubSeq(s, i + 1, j - 1)
            IN IF \E k \in 1..Len(inner) : inner[k] \in {"\\", "\n", "\r", "\t", "\f"}
               THEN ParseFail
               ELSE ParseOk(JVal("str", inner, <<>>), j + 1)

\* -?(0|[1-9][0-9]*), not followed by a fraction or an exponent
ParseNumber(s, i) ==
    LET d == IF s[i] = "-" THEN i + 1 ELSE i
        stop == {k \in d..Len(s) : s[k] \notin Digits} \cup {Len(s) + 1}
        e == (CHOOSE k \in stop : \A m \in stop : k <= m) - 1
    IN IF e < d THEN ParseFail
       ELSE IF s[d] = "0" /\ e > d THEN ParseFail
       ELSE IF e < Len(s) /\ s[e + 1] \in {".", "e", "E"} THEN ParseFail
       ELSE ParseOk(JVal("num", SubSeq(s, i, e), <<>>), e + 1)

Literals == { <<"n","u","l","l">>, <<"t","r","u","e">>, <<"f","a","l","s","e">> }

ParseLiteral(s, i) ==
    LET hit == {w \in Literals : i + Len(w) - 1 <= Len(s) /\ SubSeq(s, i, i + Len(w) - 1) = w}
    IN IF hit = {} THEN ParseFail
       ELSE LET w == CHOOSE w \in hit : TRUE
            IN ParseOk(JVal(IF w = <<"n","u","l","l">> THEN "null" ELSE "bool", w, <<>>), i + Len(w))

RECURSIVE ParseValue(_, _)
RECURSIVE ParseElements(_, _, _)
RECURSIVE ParseMembers(_, _, _)

\* the elements of an array from i (no whitespace at i), those before in acc
ParseElements(s, i, acc) ==
    LET r == ParseValue(s, i)
        j == SkipWs(s, r.pos)
    IN IF ~r.ok \/ j > Len(s) THEN ParseFail
       ELSE IF s[j] = "]" THEN ParseOk(JVal("arr", <<>>, Append(acc, r.val)), j + 1)
       ELSE IF s[j] = "," THEN ParseElements(s, SkipWs(s, j + 1), Append(acc, r.val))
       ELSE ParseFail

\* the members of an object from i (no whitespace at i), those before in acc
ParseMembers(s, i, acc) ==
    IF i > Len(s) \/ s[i] # "\"" THEN ParseFail
    ELSE LET k == ParseString(s, i)
             c == SkipWs(s, k.pos)
         IN IF ~k.ok \/ c > Len(s) \/ s[c] # ":" THEN ParseFail
            ELSE LET r == ParseValue(s, SkipWs(s, c + 1))
                     j == SkipWs(s, r.pos)
                     m == Append(acc, [k |-> k.val.s, v |-> r.val])
                 IN IF ~r.ok \/ j > Len(s) THEN ParseFail
                    ELSE IF s[j] = "}" THEN ParseOk(JVal("obj", <<>>, m), j + 1)
                    ELSE IF s[j] = "," THEN ParseMembers(s, SkipWs(s, j + 1), m)
                    ELSE ParseFail

ParseValue(s, i) ==
    IF i > Len(s) THEN ParseFail
    ELSE IF s[i] = "\"" THEN ParseString(s, i)
    ELSE IF s[i] = "{"
         THEN LET j == SkipWs(s, i + 1)
              IN IF j <= Len(s) /\ s[j] = "}"
                 THEN ParseOk(JVal("obj", <<>>, <<>>), j + 1)
                 ELSE ParseMembers(s, j, <<>>)
    ELSE IF s[i] = "["
         THEN LET j == SkipWs(s, i + 1)
              IN IF j <= Len(s) /\ s[j] = "]"
                 THEN ParseOk(JVal("arr", <<>>, <<>>), j + 1)
                 ELSE ParseElements(s, j, <<>>)
    ELSE IF s[i] \in Digits \cup {"-"} THEN ParseNumber(s, i)
    ELSE ParseLiteral(s, i)

\* json.loads(s): one value, whitespace around it, nothing after it
JsonLoads(s) ==
    LET r == ParseValue(s, SkipWs(s, 1))
    IN IF r.ok /\ SkipWs(s, r.pos) > Len(s) THEN r ELSE ParseFail

\* parsed[key] of a dict built from the members: the last one with the key wins
HasKey(obj, key) == \E n \in 1..Len(obj.items) : obj.items[n].k = key
Get(obj, key) ==
    LET at == {n \in 1..Len(obj.items) : obj.items[n].k = key}
    IN obj.items[CHOOSE n \in at : \A m \in at : m <= n].v

----------------------------------------------------------------------------
(* pydantic validation of AjusteResponse(rawText=text, **parsed) *)

K_diagnostico == <<"d","i","a","g","n","o","s","t","i","c","o">>
K_ajusteCarga == <<"a","j","u","s","t","e","C","a","r","g","a">>
K_recomendacoes == <<"r","e","c","o","m","e","n","d","a","c","o","e","s","A","u","t","o","c",
                     "u","i","d","a","d","o">>
K_planoDia == <<"p","l","a","n","o","D","i","a">>
K_rawText == <<"r","a","w","T","e","x","t">>
K_error == <<"e","r","r","o","r">>
K_titulo == <<"t","i","t","u","l","o">>
K_duracaoMin == <<"d","u","r","a","c","a","o","M","i","n">>
K_tipo == <<"t","i","p","o">>
K_detalhes == <<"d","e","t","a","l","h","e","s">>

Valid(v) == [ok |-> TRUE, val |-> v]
Invalid == [ok |-> FALSE, val |-> <<>>]

\* a str field: a JSON string; a JSON number only where pydantic coerces it
\* (version 1 does, version 2 does not).  null, arrays and objects are
\* rejected; true and false do not occur in a str field of the sampled replies
StrField(v, coerce) ==
    IF v.t = "str" \/ (v.t = "num" /\ coerce) THEN Valid(v.s) ELSE Invalid

\* Optional[str] = None
OptStrField(obj, key, coerce) ==
    IF ~HasKey(obj, key) \/ Get(obj, key).t = "null" THEN Valid(None)
    ELSE LET f == StrField(Get(obj, key), coerce)
         IN IF f.ok THEN Valid(Some(f.val)) ELSE Invalid

\* Optional[int] = None: the digits of a JSON number; no other type occurs in
\* an int field of the sampled replies
OptIntField(obj, key) ==
    IF ~HasKey(obj, key) \/ Get(obj, key).t = "null" THEN Valid(None)
    ELSE IF Get(obj, key).t = "num" THEN Valid(Some(Get(obj, key).s))
    ELSE Invalid

\* List[str]
RECURSIVE StrList(_, _)
StrList(items, coerce) ==
    IF items = <<>> THEN Valid(<<>>)
    ELSE LET h == StrField(Head(items), coerce)
             t == StrList(Tail(items), coerce)
         IN IF h.ok /\ t.ok THEN Valid(<<h.val>> \o t.val) ELSE Invalid

\* PlanoDiaItem built from the keys of item
PlanoDiaItemOf(v, coerce) ==
    IF v.t # "obj" \/ ~HasKey(v, K_titulo) THEN Invalid
    ELSE LET t == StrField(Get(v, K_titulo), coerce)
             dur == OptIntField(v, K_duracaoMin)
             tipo == OptStrField(v, K_tipo, coerce)
             det == OptStrField(v, K_detalhes, coerce)
         IN IF t.ok /\ dur.ok /\ tipo.ok /\ det.ok
            THEN Valid(PlanoDiaItem(t.val, dur.val, tipo.val, det.val))
            ELSE Invalid

\* List[PlanoDiaItem]
RECURSIVE PlanoList(_, _)
PlanoList(items, coerce) ==
    IF items = <<>> THEN Valid(<<>>)
    ELSE LET h == PlanoDiaItemOf(Head(items), coerce)
             t == PlanoList(Tail(items), coerce)
         IN IF h.ok /\ t.ok THEN Valid(<<h.val>> \o t.val) ELSE Invalid

\* recomendacoesAutocuidado: List[str] = []
RecsField(obj, coerce) ==
    IF ~HasKey(obj, K_recomendacoes) THEN Valid(<<>>)
    ELSE IF Get(obj, K_recomendacoes).t # "arr" THEN Invalid
    ELSE StrList(Get(obj, K_recomendacoes).items, coerce)

\* planoDia: Optional[List[PlanoDiaItem]] = None
PlanoField(obj, coerce) ==
    IF ~HasKey(obj, K_planoDia) \/ Get(obj, K_planoDia).t = "null" THEN Valid(None)
    ELSE IF Get(obj, K_planoDia).t # "arr" THEN Invalid
    ELSE LET p == PlanoList(Get(obj, K_planoDia).items, coerce)
         IN IF p.ok THEN Valid(Some(p.val)) ELSE Invalid

\* AjusteResponse(rawText=text, **parsed) for the result of json.loads: raises
\* (ok = FALSE) when json.loads raised, when parsed is no dict, when parsed has
\* the key rawText (the keyword is then given twice: TypeError) and when the
\* fields fail validation; keys the model does not declare are ignored
Construct(loaded, text, coerce) ==
    IF ~loaded.ok \/ loaded.val.t # "obj" THEN Invalid
    ELSE LET obj == loaded.val
         IN IF HasKey(obj, K_rawText) \/ ~HasKey(obj, K_diagnostico) THEN Invalid
            ELSE LET d == StrField(Get(obj, K_diagnostico), coerce)
                     a == OptStrField(obj, K_ajusteCarga, coerce)
                     r == RecsField(obj, coerce)
                     p == PlanoField(obj, coerce)
                     e == OptStrField(obj, K_error, coerce)
                 IN IF d.ok /\ a.ok /\ r.ok /\ p.ok /\ e.ok
                    THEN Valid(AjusteResponse(d.val, a.val, r.val, p.val, Some(text), e.val))
                    ELSE Invalid

----------------------------------------------------------------------------
(* parse_text_fallback and the normaliser chain of ajustar_carga *)

DefaultDiagnostico == <<"T","e","x","t","o"," ","l","i","v","r","e"," ","r","e","c","e","b","i",
                        "d","o",".">>

\* parse_text_fallback(text).  Its except branch is not modelled: no step of
\* the try block raises for a str.
ParseTextFallback(text) ==
    LET lines == Lines(text)
    IN AjusteResponse(IF lines # <<>> THEN Slice(lines[1], DiagMaxLen) ELSE DefaultDiagnostico,
                      AjusteCargaOf(text), Recs(lines), None, Some(text), None)

\* re.search(r"\{[\s\S]*\}", text): from the first "{" to the last "}" after it
BraceSearch(text) ==
    LET open == {i \in 1..Len(text) : text[i] = "{"}
        first == CHOOSE i \in open : \A j \in open : i <= j
        close == {j \in 1..Len(text) : text[j] = "}" /\ j > first}
    IN IF open = {} \/ close = {} THEN [found |-> FALSE, group |-> <<>>]
       ELSE [found |-> TRUE,
             group |-> SubSeq(text, first, CHOOSE j \in close : \A k \in close : k <= j)]

Chain(b, t) == [body |-> b, tried |-> t]

\* a chain whose embedded-JSON branch does not return, so that the heuristic
\* result replaces it
Normalize_noReturn(text, coerce) ==
    LET strict == Construct(JsonLoads(text), text, coerce)
    IN IF strict.ok THEN Chain(strict.val, <<"strict">>)
       ELSE Chain(ParseTextFallback(text), <<"strict", "embedded", "heuristic">>)

\* lines 158-173: json.loads(text) and AjusteResponse(rawText=text, **parsed);
\* on any exception the braces search and the same construction on the match;
\* on no match or any exception parse_text_fallback(text)
Normalize(text, coerce) ==
    LET strict == Construct(JsonLoads(text), text, coerce)
    IN IF strict.ok THEN Chain(strict.val, <<"strict">>)
       ELSE LET m == BraceSearch(text)
                embedded == Construct(JsonLoads(m.group), text, coerce)
            IN IF m.found /\ embedded.ok
               THEN Chain(embedded.val, <<"strict", "embedded">>)
               ELSE Chain(ParseTextFallback(text), <<"strict", "embedded", "heuristic">>)

\* a fallback reply that leaves rawText unset
SafeFallback_noRawText(e) ==
    AjusteResponse(<<"F","a","l","h","a"," ","n","a"," ","I","A">>, None,
                   << <<"R","e","s","p","i","r","a",CCedilla,ATilde,"o"," ","4","-","7","-",
                        "8">>,
                      <<"A","l","o","n","g","a","m","e","n","t","o"," ","r",AAcute,"p","i","d",
                        "o">> >>,
                   None, None, Some(e))

\* lines 179-184: the reply of the outer except branch, e the exception
SafeFallback(e) ==
    AjusteResponse(<<"F","a","l","h","a"," ","n","a"," ","I","A">>, None,
                   << <<"R","e","s","p","i","r","a",CCedilla,ATilde,"o"," ","4","-","7","-",
                        "8">>,
                      <<"A","l","o","n","g","a","m","e","n","t","o"," ","r",AAcute,"p","i","d",
                        "o">> >>,
                   None, Some(e), Some(e))

EmptyReplyError == <<"R","e","s","p","o","s","t","a"," ","v","a","z","i","a"," ","d","a"," ",
                     "I","A">>

----------------------------------------------------------------------------
(* Process configuration *)

Unset == "<unset>"
DefaultModel == "gemini-2.5-flash"

\* bool(s) of an os.getenv result
Bool(s) == s # Unset /\ s # ""

\* float(s), int(s): whether the conversion succeeds, and the message of the
\* ValueError when it does not.  Only unsigned decimal literals count as
\* numbers (no sign, exponent, underscore, inf or nan)
IsFloatLiteral(s) ==
    LET t == Strip(s)
    IN /\ \E k \in 1..Len(t) : t[k] \in Digits
       /\ \A k \in 1..Len(t) : t[k] \in Digits \cup {"."}
       /\ Cardinality({k \in 1..Len(t) : t[k] = "."}) <= 1

IsIntLiteral(s) ==
    LET t == Strip(s)
    IN t # <<>> /\ \A k \in 1..Len(t) : t[k] \in Digits

FloatError(s) == <<"c","o","u","l","d"," ","n","o","t"," ","c","o","n","v","e","r","t"," ","s",
                   "t","r","i","n","g"," ","t","o"," ","f","l","o","a","t",":"," ","'">> \o s \o <<"'">>
IntError(s) == <<"i","n","v","a","l","i","d"," ","l","i","t","e","r","a","l"," ","f","o","r",
                 " ","i","n","t","(",")"," ","w","i","t","h"," ","b","a","s","e"," ","1","0",
                 ":"," ","'">> \o s \o <<"'">>

DefaultTemperature == <<"0",".","3">>
DefaultMaxTokens == <<"4","0","0">>

\* os.getenv(name, default) for an Optional environment value
Getenv(v, default) == IF v = None THEN default ELSE v[1]

\* lines 144-148: the error raised while generation_config is built, None if none
GenerationConfigError(temperature, maxTokens) ==
    IF ~IsFloatLiteral(Getenv(temperature, DefaultTemperature))
    THEN Some(FloatError(Getenv(temperature, DefaultTemperature)))
    ELSE IF ~IsIntLiteral(Getenv(maxTokens, DefaultMaxTokens))
    THEN Some(IntError(Getenv(maxTokens, DefaultMaxTokens)))
    ELSE None

----------------------------------------------------------------------------
(* AjusteRequest.  sleepHours is counted in tenths of an hour. *)

ScoreMin == 0
ScoreMax == 10
SleepMin == 0
SleepMax == 240
TaskMinLength == 1

\* constraints that forget the upper bound of focusLevel
ValidRequest_noUpperBound(r) ==
    /\ r.recoveryStatus >= ScoreMin /\ r.recoveryStatus <= ScoreMax
    /\ r.perceivedFatigue >= ScoreMin /\ r.perceivedFatigue <= ScoreMax
    /\ r.focusLevel >= ScoreMin
    /\ r.sleepHours >= SleepMin /\ r.sleepHours <= SleepMax
    /\ Len(r.mainTask) >= TaskMinLength

\* the field constraints of AjusteRequest, checked by FastAPI before the handler
ValidRequest(r) ==
    /\ r.recoveryStatus >= ScoreMin /\ r.recoveryStatus <= ScoreMax
    /\ r.perceivedFatigue >= ScoreMin /\ r.perceivedFatigue <= ScoreMax
    /\ r.focusLevel >= ScoreMin /\ r.focusLevel <= ScoreMax
    /\ r.sleepHours >= SleepMin /\ r.sleepHours <= SleepMax
    /\ Len(r.mainTask) >= TaskMinLength

----------------------------------------------------------------------------
(* Inputs *)

BaseRequest ==
    [recoveryStatus |-> 8, perceivedFatigue |-> 2, focusLevel |-> 7, sleepHours |-> 75,
     mainTask |-> <<"d","e","e","p"," ","w","o","r","k">>]

ScoreSamples == {-1, 0, 10, 11}
SleepSamples == {-1, 0, 240, 241}

\* the base request and every request that differs from it in one field
RawRequests ==
    {BaseRequest}
    \cup {[BaseRequest EXCEPT !.recoveryStatus = v] : v \in ScoreSamples}
    \cup {[BaseRequest EXCEPT !.perceivedFatigue = v] : v \in ScoreSamples}
    \cup {[BaseRequest EXCEPT !.focusLevel = v] : v \in ScoreSamples}
    \cup {[BaseRequest EXCEPT !.sleepHours = v] : v \in SleepSamples}
    \cup {[BaseRequest EXCEPT !.mainTask = <<>>]}

\* replies that are one JSON object
T_full == <<"{","\"","d","i","a","g","n","o","s","t","i","c","o","\"",":","\"","o","k","\"",",",
            "\"","r","e","c","o","m","e","n","d","a","c","o","e","s","A","u","t","o","c","u",
            "i","d","a","d","o","\"",":","[","\"","w","a","l","k","\"","]","}">>
T_all == <<"{","\"","d","i","a","g","n","o","s","t","i","c","o","\"",":"," ","\"","F","a","d",
           "i","g","a"," ","l","e","v","e","\"",","," ","\"","a","j","u","s","t","e","C","a",
           "r","g","a","\"",":"," ","\"","R","e","d","u","z","i","r"," ","2","0","%","\"",",",
           "\n"," ","\"","r","e","c","o","m","e","n","d","a","c","o","e","s","A","u","t","o",
           "c","u","i","d","a","d","o","\"",":"," ","[","\"","P","a","u","s","a"," ","d","e",
           " ","1","0"," ","m","i","n","\"",","," ","\"","C","a","m","i","n","h","a","d","a",
           "\"","]",",","\n"," ","\"","p","l","a","n","o","D","i","a","\"",":"," ","[","{","\"",
           "t","i","t","u","l","o","\"",":"," ","\"","E","s","t","u","d","o","\"",","," ","\"",
           "d","u","r","a","c","a","o","M","i","n","\"",":"," ","4","5",","," ","\"","t","i",
           "p","o","\"",":"," ","\"","c","o","g","n","i","t","i","v","o","\"","}","]",",","\n",
           " ","\"","e","r","r","o","r","\"",":"," ","\"","n","o","n","e","\"",","," ","\"","e",
           "x","t","r","a","\"",":"," ","n","u","l","l","}","\n">>
T_rawText == <<"{","\"","d","i","a","g","n","o","s","t","i","c","o","\"",":","\"","o","k","\"",
               ",","\"","r","e","c","o","m","e","n","d","a","c","o","e","s","A","u","t","o","c",
               "u","i","d","a","d","o","\"",":","[","\"","w","a","l","k","\"","]",",","\"","r",
               "a","w","T","e","x","t","\"",":","\"","r","\"","}">>
T_noRecs == <<"{","\"","d","i","a","g","n","o","s","t","i","c","o","\"",":","\"","o","k","\"",
              "}">>
T_emptyFields == <<"{","\"","d","i","a","g","n","o","s","t","i","c","o","\"",":","\"","\"",",",
                   "\"","r","e","c","o","m","e","n","d","a","c","o","e","s","A","u","t","o","c",
                   "u","i","d","a","d","o","\"",":","[","]","}">>
T_noDiagnostico == <<"{","\"","a","j","u","s","t","e","C","a","r","g","a","\"",":","\"","m","e",
                     "n","o","s","\"","}">>
T_numberDiagnostico == <<"{","\"","d","i","a","g","n","o","s","t","i","c","o","\"",":","5",",",
                         "\"","r","e","c","o","m","e","n","d","a","c","o","e","s","A","u","t",
                         "o","c","u","i","d","a","d","o","\"",":","[","\"","w","a","l","k","\"",
                         "]","}">>
T_array == <<"[","\"","w","a","l","k","\"","]">>
T_truncated == <<"{","\"","d","i","a","g","n","o","s","t","i","c","o","\"",":","\"","o","k",
                 "\"",",","\"","r","e","c","o","m","e","n","d","a","c","o","e","s","A","u","t",
                 "o","c","u","i","d","a","d","o","\"",":","[","\"","w","a">>

\* replies that wrap one JSON object in prose
T_wrapped == <<"S","u","r","e",","," ","h","e","r","e"," ","i","t"," ","i","s",":","\n","{",
               "\"","d","i","a","g","n","o","s","t","i","c","o","\"",":","\"","o","k","\"",",",
               "\"","r","e","c","o","m","e","n","d","a","c","o","e","s","A","u","t","o","c","u",
               "i","d","a","d","o","\"",":","[","\"","w","a","l","k","\"","]","}","\n","H","o",
               "p","e"," ","i","t"," ","h","e","l","p","s">>
T_braceAfter == <<"R","e","s","u","l","t"," ","{","\"","d","i","a","g","n","o","s","t","i","c",
                  "o","\"",":","\"","o","k","\"",",","\"","r","e","c","o","m","e","n","d","a",
                  "c","o","e","s","A","u","t","o","c","u","i","d","a","d","o","\"",":","[","\"",
                  "w","a","l","k","\"","]","}"," ","(","e","n","d"," ",":","-","}",")">>
T_braceBefore == <<"F","o","r","m","a","t"," ","{","x","}",":"," ","{","\"","d","i","a","g","n",
                   "o","s","t","i","c","o","\"",":","\"","o","k","\"",",","\"","r","e","c","o",
                   "m","e","n","d","a","c","o","e","s","A","u","t","o","c","u","i","d","a","d",
                   "o","\"",":","[","\"","w","a","l","k","\"","]","}"," ","d","o","n","e">>

\* replies that are free text
T_plain == <<"h","e","l","l","o"," ","w","o","r","l","d">>
T_numbered == <<"F","e","e","l","i","n","g"," ","t","i","r","e","d","."," ","1","."," ","T","a",
                "k","e"," ","a"," ","1","0"," ","m","i","n"," ","b","r","e","a","k"," ","2",".",
                " ","S","t","r","e","t","c","h">>
T_numberedLines == <<"F","e","e","l","i","n","g"," ","t","i","r","e","d",".","\n","1","."," ",
                     "T","a","k","e"," ","a"," ","1","0"," ","m","i","n"," ","b","r","e","a",
                     "k","\n","2","."," ","S","t","r","e","t","c","h">>
T_blank == <<" ","\n"," ","*"," ","\n">>
T_long == <<"T","h","e"," ","q","u","i","c","k"," ","b","r","o","w","n"," ","f","o","x"," ","j",
            "u","m","p","s"," ","o","v","e","r"," ","t","h","e"," ","l","a","z","y"," ","d","o",
            "g"," ","a","n","d"," ","k","e","e","p","s"," ","r","u","n","n","i","n","g"," ","a",
            "c","r","o","s","s"," ","t","h","e"," ","w","i","d","e"," ","o","p","e","n"," ","f",
            "i","e","l","d"," ","u","n","t","i","l"," ","t","h","e"," ","s","u","n"," ","s","e",
            "t","s"," ","b","e","h","i","n","d"," ","t","h","e"," ","d","i","s","t","a","n","t",
            " ","h","i","l","l","s"," ","a","n","d"," ","n","i","g","h","t"," ","f","a","l","l",
            "s">>
T_twoPlain == <<" "," ","T","u","d","o"," ","b","e","m"," ","h","o","j","e"," "," ","\n","\n",
                "s","e","m"," ","n","o","v","i","d","a","d","e","s">>
T_recs == <<"C","a","n","s","a","d","o"," ","h","o","j","e","\n","-"," ","P","a","u","s","a",
            " ","d","e"," ","1","0"," ","m","i","n","\n",Bullet," ","c","a","m","i","n","h","e",
            " ","u","m"," ","p","o","u","c","o","\n","f","o","o"," ","b","a","r","\n","R","E",
            "D","U","Z","A"," ","a"," ","c","a","r","g","a"," ","e","m"," ","2","0","%","."," ",
            "D","e","p","o","i","s"," ","d","e","s","c","a","n","s","e">>
T_manyRecs == <<"D","i","a"," ","p","e","s","a","d","o","\n","*"," ","P","a","u","s","a","\n",
                "*"," ","C","a","m","i","n","h","e","\n","*"," ","M","e","d","i","t","e","\n",
                "*"," ","H","i","d","r","a","t","e","\n","*"," ","D","e","s","c","a","n","s",
                "e","\n","*"," ","E","v","i","t","e"," ","t","e","l","a","s","\n","*"," ","O",
                "r","g","a","n","i","z","e">>
T_eleve == <<"B","o","m"," ","d","i","a","\n","E","l","e","v","e"," ","o"," ","r","i","t","m",
             "o","!"," ","A","g","o","r","a">>

Texts ==
    { T_full, T_all, T_rawText, T_noRecs, T_emptyFields, T_noDiagnostico,
      T_numberDiagnostico, T_array, T_truncated, T_wrapped, T_braceAfter, T_braceBefore,
      T_plain, T_numbered, T_numberedLines, T_blank, T_long, T_twoPlain, T_recs,
      T_manyRecs, T_eleve }

\* str(e) of the exceptions generate_content raises
ErrorMessages == { <<"5","0","3"," ","U","N","A","V","A","I","L","A","B","L","E">>, <<>> }

\* what generate_content does: it raises, or returns a reply whose text is
\* None, "" or a text
Outcome(kind, text) == [kind |-> kind, text |-> text]
NoOutcome == Outcome("pending", <<>>)
Outcomes ==
    {Outcome("raise", m) : m \in ErrorMessages}
    \cup {Outcome("none", <<>>)}
    \cup {Outcome("text", t) : t \in Texts \cup {<<>>}}

EnvTemperatures == {None, Some(<<"h","o","t">>)}
EnvMaxTokens == {None, Some(<<"m","a","n","y">>)}

----------------------------------------------------------------------------
(* Module import: lines 20-33 *)

\* _client = genai.Client(api_key=GEMINI_API_KEY) if GEMINI_API_KEY else None,
\* and None when importing the SDK or building the client raises
ClientOf(key, sdkOk) == IF sdkOk /\ Bool(key) THEN "Client" ELSE "None"

\* MODEL_NAME = os.getenv("GEMINI_MODEL", "gemini-2.5-flash"), and the default
\* when importing the SDK or building the client raises
ModelNameOf(envModel, sdkOk) ==
    IF sdkOk /\ envModel # Unset THEN envModel ELSE DefaultModel

NoHealthBody == [ok |-> FALSE, model |-> "", hasKey |-> FALSE]

Init ==
    /\ \E key \in {Unset, "", "k3y"}, sdkOk \in BOOLEAN, envModel \in {Unset, "gemini-custom"} :
           /\ GEMINI_API_KEY = key
           /\ client = ClientOf(key, sdkOk)
           /\ MODEL_NAME = ModelNameOf(envModel, sdkOk)
    /\ GEN_TEMPERATURE \in EnvTemperatures
    /\ GEN_MAX_TOKENS \in EnvMaxTokens
    /\ strCoercion \in BOOLEAN
    /\ pc = "idle"
    /\ rawReq = BaseRequest
    /\ calls = 0
    /\ upstream = NoOutcome
    /\ status = 0
    /\ body = NoBody
    /\ tried = <<>>
    /\ served = 0
    /\ healthStatus = 0
    /\ healthBody = NoHealthBody

config == <<GEMINI_API_KEY, client, MODEL_NAME, GEN_TEMPERATURE, GEN_MAX_TOKENS, strCoercion>>
health == <<healthStatus, healthBody>>

----------------------------------------------------------------------------
(* Operations *)

\* the reply that ends the request
Reply(code, b, t) ==
    /\ status' = code
    /\ body' = b
    /\ tried' = t
    /\ pc' = "done"

\* POST /api/ai/ajuste arrives: FastAPI builds AjusteRequest from the body and
\* answers 422 itself when a field fails its constraint; otherwise it calls
\* ajustar_carga(req)
PostAjuste(raw) ==
    /\ pc \in {"idle", "done"}
    /\ served < MaxRequests
    /\ served' = served + 1
    /\ rawReq' = raw
    /\ calls' = 0
    /\ upstream' = NoOutcome
    /\ IF ValidRequest(raw)
       THEN /\ pc' = "handler"
            /\ status' = 0
            /\ body' = NoBody
            /\ tried' = <<>>
       ELSE Reply(422, NoBody, <<>>)
    /\ UNCHANGED <<config, health>>

\* a handler that builds generation_config outside its try block, so that a
\* malformed parameter escapes as a server error
AjustarCarga_configOutsideTry ==
    /\ pc = "handler"
    /\ IF client = "None" \/ GenerationConfigError(GEN_TEMPERATURE, GEN_MAX_TOKENS) # None
       THEN /\ Reply(500, NoBody, <<>>)
            /\ UNCHANGED calls
       ELSE /\ pc' = "awaiting"
            /\ calls' = calls + 1
            /\ UNCHANGED <<status, body, tried>>
    /\ UNCHANGED <<config, health, rawReq, upstream, served>>

\* ajustar_carga, lines 137-154: up to the call of generate_content
AjustarCarga ==
    /\ pc = "handler"
    /\ IF client = "None"
       THEN /\ Reply(500, NoBody, <<>>)
            /\ UNCHANGED calls
       ELSE LET e == GenerationConfigError(GEN_TEMPERATURE, GEN_MAX_TOKENS)
            IN IF e # None
               THEN /\ Reply(200, SafeFallback(e[1]), <<>>)
                    /\ UNCHANGED calls
               ELSE /\ pc' = "awaiting"
                    /\ calls' = calls + 1
                    /\ UNCHANGED <<status, body, tried>>
    /\ UNCHANGED <<config, health, rawReq, upstream, served>>

\* what the handler returns for an outcome of generate_content, lines 155-184
Handle(o, coerce) ==
    IF o.kind = "raise" THEN Chain(SafeFallback(o.text), <<>>)
    ELSE IF o.kind = "none" \/ o.text = <<>> THEN Chain(SafeFallback(EmptyReplyError), <<>>)
    ELSE Normalize(o.text, coerce)

\* ajustar_carga, lines 155-184: generate_content returns or raises, and the
\* handler answers
GenerateContent(o) ==
    /\ pc = "awaiting"
    /\ upstream' = o
    /\ LET h == Handle(o, strCoercion) IN Reply(200, h.body, h.tried)
    /\ UNCHANGED <<config, health, rawReq, calls, served>>

\* GET /healthz, line 132
HealthzBody == [ok |-> TRUE, model |-> MODEL_NAME, hasKey |-> Bool(GEMINI_API_KEY)]

Healthz ==
    /\ healthStatus' = 200
    /\ healthBody' = HealthzBody
    /\ UNCHANGED <<config, pc, rawReq, calls, upstream, status, body, tried, served>>

Next ==
    \/ \E raw \in RawRequests : PostAjuste(raw)
    \/ AjustarCarga
    \/ \E o \in Outcomes : GenerateContent(o)
    \/ Healthz

Spec == Init /\ [][Next]_vars



----------------------------------------------------------------------------
(* Properties *)

Done == pc = "done"

\* the current request got an upstream text
GotText == Done /\ upstream.kind = "text" /\ upstream.text # <<>>

\* the declared bounds of the request fields (sleepHours in tenths of an hour)
InBounds(r) ==
    /\ r.recoveryStatus \in 0..10
    /\ r.perceivedFatigue \in 0..10
    /\ r.focusLevel \in 0..10
    /\ r.sleepHours \in 0..240
    /\ r.mainTask # <<>>

Contains(hay, needle) ==
    \E i \in 1..(Len(hay) - Len(needle) + 1) : SubSeq(hay, i, i + Len(needle) - 1) = needle

\* the value of an optional key of a JSON object
ParsedOpt(obj, key) == IF HasKey(obj, key) THEN Some(Get(obj, key).s) ELSE None
ParsedStrs(arr) == [n \in 1..Len(arr.items) |-> arr.items[n].s]
ParsedPlano(arr) ==
    [n \in 1..Len(arr.items) |->
        PlanoDiaItem(Get(arr.items[n], K_titulo).s, ParsedOpt(arr.items[n], K_duracaoMin),
                     ParsedOpt(arr.items[n], K_tipo), ParsedOpt(arr.items[n], K_detalhes))]

IsStr(obj, key) == HasKey(obj, key) /\ Get(obj, key).t = "str"
OptIs(obj, key, type) == HasKey(obj, key) => Get(obj, key).t = type

\* a JSON object that matches the response schema: diagnostico and
\* recomendacoesAutocuidado, and any of ajusteCarga, planoDia, rawText, error
SchemaObject(obj) ==
    /\ obj.t = "obj"
    /\ \A n \in 1..Len(obj.items) :
           obj.items[n].k \in {K_diagnostico, K_recomendacoes, K_ajusteCarga, K_planoDia,
                               K_rawText, K_error}
    /\ IsStr(obj, K_diagnostico)
    /\ HasKey(obj, K_recomendacoes) /\ Get(obj, K_recomendacoes).t = "arr"
    /\ \A n \in 1..Len(Get(obj, K_recomendacoes).items) :
           Get(obj, K_recomendacoes).items[n].t = "str"
    /\ OptIs(obj, K_ajusteCarga, "str") /\ OptIs(obj, K_rawText, "str")
    /\ OptIs(obj, K_error, "str") /\ OptIs(obj, K_planoDia, "arr")
    /\ HasKey(obj, K_planoDia) =>
           \A n \in 1..Len(Get(obj, K_planoDia).items) :
               LET it == Get(obj, K_planoDia).items[n]
               IN /\ it.t = "obj" /\ IsStr(it, K_titulo)
                  /\ OptIs(it, K_duracaoMin, "num")
                  /\ OptIs(it, K_tipo, "str") /\ OptIs(it, K_detalhes, "str")

IsSchemaJson(text) == JsonLoads(text).ok /\ SchemaObject(JsonLoads(text).val)

\* every field of b has the value the object gives it (rawText only when the
\* object has the key)
FieldsEqual(b, obj) ==
    /\ b.diagnostico = Get(obj, K_diagnostico).s
    /\ b.recomendacoesAutocuidado = ParsedStrs(Get(obj, K_recomendacoes))
    /\ b.ajusteCarga = ParsedOpt(obj, K_ajusteCarga)
    /\ b.error = ParsedOpt(obj, K_error)
    /\ b.planoDia = IF HasKey(obj, K_planoDia) THEN Some(ParsedPlano(Get(obj, K_planoDia)))
                    ELSE None
    /\ HasKey(obj, K_rawText) => b.rawText = ParsedOpt(obj, K_rawText)

\* C1: for every in-bounds request and every upstream outcome the reply has a
\* non-empty diagnostico and a non-empty recomendacoesAutocuidado
C1_SchemaAlways ==
    (Done /\ InBounds(rawReq) /\ upstream # NoOutcome) =>
        /\ Len(body.diagnostico) > 0
        /\ Len(body.recomendacoesAutocuidado) > 0

\* C2: a request with a field outside its bounds is answered with a client
\* error and no generate_content call is made for it, whatever the client
C2_RejectedBeforeAnyCall ==
    (pc # "idle" /\ ~InBounds(rawReq)) =>
        /\ Done
        /\ status \in 400..499
        /\ calls = 0
        /\ upstream = NoOutcome

C2_Witness ==
    /\ Done /\ ~InBounds(rawReq) /\ status = 422 /\ client = "Client"
    /\ rawReq.focusLevel = 11

UpstreamFailed == upstream.kind \in {"raise", "none"} \/ upstream = Outcome("text", <<>>)

C5_StrictRoundTrip ==
    (GotText /\ IsSchemaJson(upstream.text)) =>
        /\ FieldsEqual(body, JsonLoads(upstream.text).val)
        /\ tried = <<"strict">>

\* a non-empty free text (no JSON) with no "{...}" and no keyword: no segment
\* starts with a self-care verb or holds a duration, and no load-change verb
\* occurs
FreeTextNoKeywords(text) ==
    /\ text # <<>>
    /\ ~JsonLoads(text).ok
    /\ ~BraceSearch(text).found
    /\ \A n \in 1..Len(Lines(text)) :
           ~SuggestionVerbMatch(Lines(text)[n]) /\ ~DurationMatch(Lines(text)[n])
    /\ \A i \in 1..Len(text) :
           \A stem \in LoadStemsW \cup {LoadStemBare} : ~StemAt(text, i, stem)

\* the first segment of text that is not blank, stripped and cut to 140
\* characters; <<>> when every segment is blank
FirstSegment(text) ==
    LET ink == {i \in 1..Len(text) : text[i] \notin {"\r", "\n", "*", Bullet} \cup Whitespace}
        b == CHOOSE i \in ink : \A j \in ink : i <= j
        brk == {k \in b..Len(text) : text[k] \in {"\r", "\n", "*", Bullet}} \cup {Len(text) + 1}
        seg == Strip(SubSeq(text, b, (CHOOSE k \in brk : \A m \in brk : k <= m) - 1))
    IN IF ink = {} THEN <<>> ELSE SubSeq(seg, 1, Min(140, Len(seg)))

\* C6 as stated: such a text is answered with the fixed default, diagnostico
\* "Texto livre recebido." and the one recommendation "Pausa leve 5m"
C6_FixedDefault ==
    (GotText /\ FreeTextNoKeywords(upstream.text)) =>
        /\ body.diagnostico = <<"T","e","x","t","o"," ","l","i","v","r","e"," ","r","e","c","e",
                                "b","i","d","o",".">>
        /\ body.recomendacoesAutocuidado = << <<"P","a","u","s","a"," ","l","e","v","e"," ","5",
                                                "m">> >>

\* C6, amended: such a text is answered with the one recommendation
\* "Pausa leve 5m", no ajusteCarga, and as diagnostico its first non-blank
\* segment cut to 140 characters; "Texto livre recebido." only when every
\* segment is blank
C6_DefaultRecsFirstSegment ==
    (GotText /\ FreeTextNoKeywords(upstream.text)) =>
        /\ body.recomendacoesAutocuidado = << <<"P","a","u","s","a"," ","l","e","v","e"," ","5",
                                                "m">> >>
        /\ body.ajusteCarga = None
        /\ body.diagnostico = IF FirstSegment(upstream.text) # <<>>
                              THEN FirstSegment(upstream.text)
                              ELSE <<"T","e","x","t","o"," ","l","i","v","r","e"," ","r","e",
                                     "c","e","b","i","d","o",".">>
        /\ body.rawText = Some(upstream.text)
        /\ body.error = None

C6_Witness ==
    /\ GotText /\ FreeTextNoKeywords(upstream.text)
    /\ Len(upstream.text) > 140 /\ Len(body.diagnostico) = 140

\* the places <<i, j>> where text holds a schema-matching JSON object with
\* prose before or after it
EmbeddedObjects(text) ==
    {p \in {i \in 1..Len(text) : text[i] = "{"} \X {j \in 1..Len(text) : text[j] = "}"} :
        /\ p[1] < p[2]
        /\ p[1] > 1 \/ p[2] < Len(text)
        /\ ~JsonLoads(text).ok
        /\ IsSchemaJson(SubSeq(text, p[1], p[2]))}

\* C7: a text of prose, one schema-matching JSON object and prose (braces in
\* the prose or not) is answered from that object, not from the heuristic
C7_EmbeddedExtraction ==
    (GotText /\ Cardinality(EmbeddedObjects(upstream.text)) = 1) =>
        LET p == CHOOSE p \in EmbeddedObjects(upstream.text) : TRUE
        IN /\ tried = <<"strict", "embedded">>
           /\ FieldsEqual(body, JsonLoads(SubSeq(upstream.text, p[1], p[2])).val)

\* C8: GET /healthz answers 200 with exactly ok, model, hasKey and
\* clientReady; hasKey tells whether a credential is configured and
\* clientReady whether the client was initialised
C8_HealthzFields ==
    healthStatus # 0 =>
        /\ healthStatus = 200
        /\ DOMAIN healthBody = {"ok", "model", "hasKey", "clientReady"}
        /\ healthBody.hasKey = (GEMINI_API_KEY \notin {Unset, ""})
        /\ healthBody.clientReady = (client = "Client")

StrictResult(text) == Construct(JsonLoads(text), text, strCoercion)
EmbeddedResult(text) ==
    IF BraceSearch(text).found
    THEN Construct(JsonLoads(BraceSearch(text).group), text, strCoercion)
    ELSE Invalid

\* C9: the strategies run in the order strict, embedded, heuristic; the reply
\* is the result of the first that succeeds and none runs after it
C9_OrderedChain ==
    GotText =>
        LET text == upstream.text
        IN IF StrictResult(text).ok
           THEN tried = <<"strict">> /\ body = StrictResult(text).val
           ELSE IF EmbeddedResult(text).ok
           THEN tried = <<"strict", "embedded">> /\ body = EmbeddedResult(text).val
           ELSE /\ tried = <<"strict", "embedded", "heuristic">>
                /\ body = ParseTextFallback(text)

C9_Witness ==
    /\ GotText /\ tried = <<"strict", "embedded">>
    /\ ~StrictResult(upstream.text).ok
    /\ body.diagnostico = <<"o","k">>

\* C10 as stated: the one-line text with numbered items gives the diagnostico
\* "Feeling tired." and recommendations that hold both items
C10_NumberedItems ==
    (GotText /\ upstream.text = T_numbered) =>
        /\ body.diagnostico = <<"F","e","e","l","i","n","g"," ","t","i","r","e","d",".">>
        /\ \E n \in 1..Len(body.recomendacoesAutocuidado) :
               Contains(body.recomendacoesAutocuidado[n], <<"T","a","k","e"," ","a"," ","1","0",
                                                            " ","m","i","n"," ","b","r","e","a",
                                                            "k">>)
        /\ \E n \in 1..Len(body.recomendacoesAutocuidado) :
               Contains(body.recomendacoesAutocuidado[n], <<"S","t","r","e","t","c","h">>)

\* C10, amended: the one-line text has no line break or bullet marker, so the
\* heuristic path gives the whole text as diagnostico and the default
\* recommendation "Pausa leve 5m"; no numbered item is extracted
C10_WholeLineDiagnostico ==
    (GotText /\ upstream.text = T_numbered) =>
        /\ tried = <<"strict", "embedded", "heuristic">>
        /\ body.diagnostico = <<"F","e","e","l","i","n","g"," ","t","i","r","e","d","."," ","1",
                                "."," ","T","a","k","e"," ","a"," ","1","0"," ","m","i","n"," ",
                                "b","r","e","a","k"," ","2","."," ","S","t","r","e","t","c",
                                "h">>
        /\ body.recomendacoesAutocuidado = << <<"P","a","u","s","a"," ","l","e","v","e"," ","5",
                                                "m">> >>
        /\ body.ajusteCarga = None

C10_Witness == GotText /\ upstream.text = T_numbered /\ status = 200

====
